---- MODULE Spec2Model ----
(***************************************************************************)
(* redux-promise-middleware (src/index.ts): the promise detector, the      *)
(* action destructurer, the action builder and the middleware returned by  *)
(* createPromise, run against a store whose `next` and `dispatch` record   *)
(* what they are given.                                                    *)
(*                                                                         *)
(* JavaScript values are records tagged by the field k.  A field name has  *)
(* one type throughout.  Strings that the code concatenates are TLA+       *)
(* strings, joined as Array.prototype.join joins them.                     *)
(*                                                                         *)
(* `next` and `dispatch` belong to the store: `next` returns a value of    *)
(* its choosing, `dispatch` may throw, and neither feeds the action back   *)
(* into this middleware.                                                   *)
(***************************************************************************)
EXTENDS Naturals, Sequences, FiniteSets, TLC

VARIABLES api, config, calls, emitted, jobs, settleOrder

vars == <<api, config, calls, emitted, jobs, settleOrder>>

(***************************************************************************)
(* Bounds                                                                  *)
(***************************************************************************)
\* number of middleware calls made from outside in one behaviour
MaxCalls == 2

(***************************************************************************)
(* JavaScript values                                                       *)
(***************************************************************************)
Undefined == [k |-> "undefined"]
Null == [k |-> "null"]
\* marks a property that an object literal does not have
Absent == [k |-> "absent"]
Num(n) == [k |-> "number", n |-> n]
Str(s) == [k |-> "string", s |-> s]
Bool(b) == [k |-> "boolean", b |-> b]
Err(m) == [k |-> "error", msg |-> m]
\* a metadata object, identified by id
Meta(i) == [k |-> "meta", id |-> i]
\* an object whose `then` is callable: settles with outcome o and value v;
\* pre: it had already settled when the action was dispatched
Promise(o, v, pre) == [k |-> "promise", outcome |-> o, v |-> v, pre |-> pre]
\* a callable value (typeof 'function') that also has a callable `then`:
\* isPromise rejects it (line 83 wants typeof 'object'), it is truthy, and so
\* it is the one kind of value on which line 194 can call `then`.  Its `then`
\* is taken to behave as Promises/A+ requires: one of the two callbacks is
\* called, once, after the call that registered it has returned.  Called as
\* a function it returns undefined.
CallableThenable(o, v, pre) == [k |-> "callableThenable", outcome |-> o, v |-> v, pre |-> pre]
\* a function of no arguments: throws, or returns ret
Func(ret) == [k |-> "function", throws |-> FALSE, ret |-> ret]
ThrowingFunc == [k |-> "function", throws |-> TRUE, ret |-> Undefined]
\* a plain object; a property it lacks reads as undefined
Obj(p, d) == [k |-> "object", promise |-> p, data |-> d]

\* the errors the runtime itself raises
TypeErrorNull == Err("TypeError: cannot read property of null")
TypeErrorUndefined == Err("TypeError: cannot read property of undefined")
TypeErrorNotFunction == Err("TypeError: promise.then is not a function")
FuncError == Err("thrown by the payload function")
DispatchError == Err("thrown by dispatch")

\* typeof value
TypeOf(v) ==
  CASE v.k \in {"undefined", "absent"} -> "undefined"
    [] v.k \in {"null", "object", "error", "promise", "meta", "types"} -> "object"
    [] v.k \in {"function", "callableThenable", "storeDispatch"} -> "function"
    [] OTHER -> v.k

\* typeof value.then, for a value that is not null or undefined
TypeOfThen(v) == IF v.k \in {"promise", "callableThenable"} THEN "function" ELSE "undefined"

\* the value read where `x` is an absent property
Read(v) == IF v = Absent THEN Undefined ELSE v

\* ToBoolean(value)
Truthy(v) ==
  CASE v.k \in {"undefined", "absent", "null"} -> FALSE
    [] v.k = "number" -> v.n # 0
    [] v.k = "string" -> v.s # ""
    [] v.k = "boolean" -> v.b
    [] OTHER -> TRUE

\* the string an element of an array contributes to Array.prototype.join
JoinElem(v) == IF v.k = "string" THEN v.s ELSE ""

\* the separator Array.prototype.join uses: "," when it is given undefined
JoinSep(d) ==
  CASE d.k \in {"undefined", "absent"} -> ","
    [] d.k = "string" -> d.s
    [] d.k = "null" -> "null"
    [] OTHER -> ""

(***************************************************************************)
(* isPromise                                                               *)
(***************************************************************************)
isPromise(value) ==
  value # Null /\ TypeOf(value) = "object" /\ TypeOfThen(value) = "function"

(***************************************************************************)
(* destructureAction: threw says that it raised err instead of returning;  *)
(* invoked counts the caller-supplied functions it called.                 *)
(***************************************************************************)
Returned(p, d, n) == [threw |-> FALSE, promise |-> p, data |-> d, invoked |-> n, err |-> Undefined]
Threw(e, n) == [threw |-> TRUE, promise |-> Null, data |-> Null, invoked |-> n, err |-> e]

CallResultUnwrapped(f) ==
  IF f.k = "function"
  THEN IF TypeOf(f.ret) = "function" THEN Undefined ELSE f.ret
  ELSE Undefined

\* payload(): the result of calling a callable value
CallResult(f) == IF f.k = "function" THEN f.ret ELSE Undefined
CallThrows(f) == f.k = "function" /\ f.throws

destructureAction(action) ==
  LET payload == Read(action.payload) IN
  IF isPromise(payload) THEN Returned(payload, Null, 0)
  ELSE IF TypeOf(payload) = "function" THEN
    IF CallThrows(payload) THEN Threw(FuncError, 1)
    ELSE Returned(CallResult(payload), Null, 1)
  ELSE IF TypeOf(payload) = "object" THEN
    IF payload = Null THEN Threw(TypeErrorNull, 0)
    ELSE
      LET data == IF payload.k = "object" THEN Read(payload.data) ELSE Undefined
          prop == IF payload.k = "object" THEN Read(payload.promise) ELSE Undefined
      IN IF TypeOf(prop) = "function" THEN
           IF CallThrows(prop) THEN Threw(FuncError, 1)
           ELSE Returned(CallResult(prop), data, 1)
         ELSE IF isPromise(prop) THEN Returned(prop, data, 0)
         ELSE Returned(Null, data, 0)
  ELSE Returned(Null, Null, 0)

(***************************************************************************)
(* createAction                                                            *)
(***************************************************************************)
createActionKeepsFields(type, payload, meta, error, asyncType, asyncTypeDelimiter) ==
  [type |-> type \o JoinSep(asyncTypeDelimiter) \o JoinElem(asyncType),
   payload |-> payload,
   meta |-> meta,
   error |-> error]

createAction(type, payload, meta, error, asyncType, asyncTypeDelimiter) ==
  [type |-> type \o JoinSep(asyncTypeDelimiter) \o JoinElem(asyncType),
   payload |-> IF payload = Null \/ TypeOf(payload) = "undefined" THEN Absent ELSE payload,
   meta |-> IF Read(meta) # Undefined THEN meta ELSE Absent,
   error |-> IF Truthy(error) THEN error ELSE Absent]

(***************************************************************************)
(* createPromise(config): the configuration the middleware closes over     *)
(***************************************************************************)
Types(p, f, r) == [k |-> "types", pending |-> p, fulfilled |-> f, rejected |-> r]
DefaultTypes == Types(Str("PENDING"), Str("FULFILLED"), Str("REJECTED"))
\* the default value of the parameter `config`
DefaultConfig == [types |-> DefaultTypes, typeDelimiter |-> Str("_")]
\* createPromise(arg): the default applies only when no argument is passed;
\* a property the argument lacks is destructured as undefined
createPromise(arg) ==
  IF arg = Undefined THEN DefaultConfig
  ELSE [types |-> Read(arg.types), typeDelimiter |-> Read(arg.typeDelimiter)]

\* the store's own dispatch function, and a store API that has it
StoreDispatch == [k |-> "storeDispatch"]
StoreAPI == [dispatch |-> StoreDispatch]

middlewareUnchecked(storeApi) == createPromise(Undefined)

\* the default export: createPromise() with no argument when dispatch is a
\* function, null otherwise
middleware(storeApi) ==
  IF TypeOf(Read(storeApi.dispatch)) = "function"
  THEN createPromise(Undefined)
  ELSE Null

\* types.pending and the like: a TypeError when types is undefined
TypesMissing(cfg) == cfg.types.k # "types"
TypeToken(cfg, which) ==
  CASE which = "pending" -> Read(cfg.types.pending)
    [] which = "fulfilled" -> Read(cfg.types.fulfilled)
    [] which = "rejected" -> Read(cfg.types.rejected)

(***************************************************************************)
(* The state                                                               *)
(*   api          the store API the middleware was given                   *)
(*   config       what createPromise destructured from its argument, or    *)
(*                null where the default export returned null              *)
(*   calls        one record per call of the middleware, in call order     *)
(*   emitted      every action handed to next or to dispatch, in order     *)
(*   jobs         the queue of settlement callbacks that are ready to run  *)
(*   settleOrder  the calls whose promise-like value has settled, in order *)
(***************************************************************************)
\* what a call of the middleware gave back to its caller
RetValueDropped(v) == [k |-> "returned", v |-> Undefined]

RetValue(v) == [k |-> "returned", v |-> v]
RetThrow(e) == [k |-> "threw", e |-> e]
RetPending == [k |-> "promise", state |-> "pending"]
RetResolved(value, action) == [k |-> "promise", state |-> "fulfilled", value |-> value, action |-> action]
RetRejected(e) == [k |-> "promise", state |-> "rejected", e |-> e]

\* kind names the statement of the middleware that sent the action:
\* "nested" (line 165), "passthrough" (line 170), "pending" (line 180),
\* "fulfilled" (line 205), "rejected" (line 219)
EmitSettledThroughNext(via, kind, action, call, threw) ==
  [via |-> IF kind \in {"fulfilled", "rejected"} THEN "next" ELSE via,
   kind |-> kind, action |-> action, call |-> call, threw |-> threw]

Emit(via, kind, action, call, threw) ==
  [via |-> via, kind |-> kind, action |-> action, call |-> call, threw |-> threw]

\* the values `next` may return
NextReturns == {Undefined, Str("returned by next")}

\* the value has a settlement that can be awaited
Settles(v) == v.k \in {"promise", "callableThenable"}

\* one call of the middleware: (action) => { ... }, up to its return.
\* nextRet is what `next` returns to it.  When the call was made, sawReject
\* says whether an earlier call's promise-like value had been rejected, and
\* inFlight is the set of earlier calls whose value had not settled yet.
\* The call record keeps what `next` returned, if `next` was called.
Handle(cfg, action, id, nextRet, sawReject, inFlight) ==
  LET d == destructureAction(action)
      promise == d.promise
      base == [action |-> action, promise |-> promise, invoked |-> d.invoked,
               registered |-> FALSE, settled |-> Settles(promise) /\ promise.pre,
               sawReject |-> sawReject, inFlight |-> inFlight]
      with(ret, em, reg) ==
        [call |-> [base EXCEPT !.registered = reg]
                    @@ [ret |-> ret,
                        nextRet |-> IF em = <<>> THEN Undefined ELSE nextRet],
         out |-> em]
  IN
  IF d.threw THEN with(RetThrow(d.err), <<>>, FALSE)
  ELSE IF isPromise(promise) THEN
    with(RetValue(nextRet),
         <<Emit("next", "nested", [action EXCEPT !.payload = promise], id, FALSE)>>, FALSE)
  ELSE IF ~Truthy(promise) THEN
    with(RetValue(nextRet), <<Emit("next", "passthrough", action, id, FALSE)>>, FALSE)
  ELSE IF TypesMissing(cfg) THEN with(RetThrow(TypeErrorUndefined), <<>>, FALSE)
  ELSE
    LET pending == createAction(action.type, d.data, action.meta, Bool(FALSE),
                                TypeToken(cfg, "pending"), cfg.typeDelimiter)
        out == <<Emit("next", "pending", pending, id, FALSE)>>
    IN IF TypeOfThen(promise) # "function"
       THEN with(RetThrow(TypeErrorNotFunction), out, FALSE)
       ELSE with(RetPending, out, TRUE)

onFulfilledWithoutMeta(cfg, c, value) ==
  createAction(c.action.type, value, Absent, Bool(FALSE),
               TypeToken(cfg, "fulfilled"), cfg.typeDelimiter)

\* the fulfilled callback of promise.then, for call record c
onFulfilled(cfg, c, value) ==
  createAction(c.action.type, value, c.action.meta, Bool(FALSE),
               TypeToken(cfg, "fulfilled"), cfg.typeDelimiter)

\* the rejected callback of promise.then, for call record c
onRejected(cfg, c, error) ==
  createAction(c.action.type, error, c.action.meta, Bool(TRUE),
               TypeToken(cfg, "rejected"), cfg.typeDelimiter)

(***************************************************************************)
(* Inputs                                                                  *)
(***************************************************************************)
\* the arguments createPromise is called with: none, a full configuration,
\* tokens only, delimiter only, and one token only
ConfigArgs ==
  {Undefined,
   [types |-> Types(Str("START"), Str("OK"), Str("FAIL")), typeDelimiter |-> Str("/")],
   [types |-> Types(Str("START"), Str("OK"), Str("FAIL")), typeDelimiter |-> Absent],
   [types |-> Absent, typeDelimiter |-> Str("/")],
   [types |-> Types(Absent, Str("success"), Absent), typeDelimiter |-> Str("_")]}

\* how a promise-like value settles: outcome, value, and whether it had
\* settled before the dispatch
Settlements ==
  {<<"fulfill", Num(42), FALSE>>, <<"fulfill", Num(42), TRUE>>,
   <<"fulfill", Undefined, FALSE>>,
   <<"reject", Err("x"), FALSE>>, <<"reject", Err("x"), TRUE>>}

Promises == {Promise(t[1], t[2], t[3]) : t \in Settlements}
CallableThenables == {CallableThenable(t[1], t[2], t[3]) : t \in Settlements}

Scalars == {Null, Num(0), Num(42), Str("optimistic")}

Funcs ==
  {Func(r) : r \in {Undefined, Err("x")} \cup Scalars \cup Promises \cup CallableThenables}
    \cup {ThrowingFunc}

Objs ==
  {Obj(p, d) :
     p \in {Absent, Num(42)} \cup Promises \cup Funcs,
     d \in {Absent, Str("optimistic")}}

Payloads ==
  {Absent, Err("x")} \cup Scalars \cup Promises \cup CallableThenables
    \cup Funcs \cup Objs

MkAction(type, payload, meta) ==
  [type |-> type, payload |-> payload, meta |-> meta, error |-> Absent]

\* the actions given to a middleware that handles one call
Actions ==
  {MkAction(t, p, m) : t \in {"FETCH", "SAVE"}, p \in Payloads,
                       m \in {Absent, Undefined, Null, Meta(1)}}

\* the actions given to a middleware that has several calls in flight: the
\* meta object goes with the type, so that each tells whose action it is
ConcurrentPayloads ==
  {Num(42),
   Promise("fulfill", Num(42), FALSE), Promise("reject", Err("x"), FALSE),
   Func(Num(42)),
   Func(CallableThenable("fulfill", Num(42), FALSE)),
   Func(CallableThenable("fulfill", Num(7), FALSE)),
   Func(CallableThenable("fulfill", Num(42), TRUE)),
   Func(CallableThenable("reject", Err("x"), FALSE))}

ConcurrentActions ==
  {MkAction("FETCH", p, Meta(1)) : p \in ConcurrentPayloads}
    \cup {MkAction("SAVE", p, Meta(2)) : p \in ConcurrentPayloads}

(***************************************************************************)
(* The middleware in a store                                               *)
(***************************************************************************)
Init ==
  /\ api = StoreAPI
  /\ config \in {createPromise(arg) : arg \in ConfigArgs}
  /\ calls = <<>>
  /\ emitted = <<>>
  /\ jobs = <<>>
  /\ settleOrder = <<>>

\* the default export: createPromise() with no argument
InitDefault ==
  /\ api = StoreAPI
  /\ config = createPromise(Undefined)
  /\ calls = <<>>
  /\ emitted = <<>>
  /\ jobs = <<>>
  /\ settleOrder = <<>>

\* the store's caller passes `action` to the middleware
Call(action) ==
  /\ \E nextRet \in NextReturns :
       LET id == Len(calls) + 1
           h == Handle(config, action, id, nextRet,
                       \E i \in DOMAIN calls :
                          calls[i].settled /\ calls[i].promise.outcome = "reject",
                       {i \in DOMAIN calls :
                          Settles(calls[i].promise) /\ ~calls[i].settled})
       IN /\ calls' = Append(calls, h.call)
          /\ emitted' = emitted \o h.out
          \* then() on a settled thenable queues the callback at once
          /\ jobs' = IF h.call.registered /\ h.call.settled
                     THEN Append(jobs, id) ELSE jobs
          /\ settleOrder' = IF h.call.settled
                            THEN Append(settleOrder, id) ELSE settleOrder
  /\ UNCHANGED <<api, config>>

\* one action is dispatched
Dispatch(action) ==
  /\ calls = <<>>
  /\ Call(action)

\* an action is dispatched while earlier ones may still be in flight
DispatchNext(action) ==
  /\ Len(calls) < MaxCalls
  /\ Call(action)

\* the promise-like value of call i settles; a registered callback is queued
Settle(i) ==
  /\ Settles(calls[i].promise)
  /\ ~calls[i].settled
  /\ calls' = [calls EXCEPT ![i].settled = TRUE]
  /\ settleOrder' = Append(settleOrder, i)
  /\ jobs' = IF calls[i].registered THEN Append(jobs, i) ELSE jobs
  /\ UNCHANGED <<api, config, emitted>>

CallbackChained(cfg, c, i, dispatchThrows) ==
  IF c.promise.outcome = "fulfill"
  THEN <<Emit("dispatch", "fulfilled", onFulfilled(cfg, c, c.promise.v), i, dispatchThrows)>>
         \o (IF dispatchThrows
             THEN <<Emit("dispatch", "rejected", onRejected(cfg, c, DispatchError), i, FALSE)>>
             ELSE <<>>)
  ELSE <<Emit("dispatch", "rejected", onRejected(cfg, c, c.promise.v), i, dispatchThrows)>>

\* what the callbacks passed to promise.then hand to dispatch for call
\* record c (call i): the fulfilled callback or the rejected one, never one
\* after the other, as both are arguments of the same `then`
Callback(cfg, c, i, dispatchThrows) ==
  IF c.promise.outcome = "fulfill"
  THEN <<Emit("dispatch", "fulfilled", onFulfilled(cfg, c, c.promise.v), i, dispatchThrows)>>
  ELSE <<Emit("dispatch", "rejected", onRejected(cfg, c, c.promise.v), i, dispatchThrows)>>

\* the oldest queued callback runs: (value) => {...} or (error) => {...};
\* dispatchThrows: the store's dispatch throws when it is given the action
RunJob(dispatchThrows) ==
  /\ jobs # <<>>
  /\ LET i == Head(jobs)
         c == calls[i]
         p == c.promise
     IN /\ emitted' = emitted \o Callback(config, c, i, dispatchThrows)
        /\ calls' = [calls EXCEPT ![i].ret =
             IF dispatchThrows THEN RetRejected(DispatchError)
             ELSE IF p.outcome = "fulfill"
               THEN RetResolved(p.v, onFulfilled(config, c, p.v))
             ELSE RetRejected(p.v)]
  /\ jobs' = Tail(jobs)
  /\ UNCHANGED <<api, config, settleOrder>>

\* one dispatched action, under every configuration
Next ==
  \/ \E action \in Actions : Dispatch(action)
  \/ \E i \in DOMAIN calls : Settle(i)
  \/ \E dispatchThrows \in BOOLEAN : RunJob(dispatchThrows)

Spec == Init /\ [][Next]_vars

\* several actions in flight, under the default configuration
NextConcurrent ==
  \/ \E action \in ConcurrentActions : DispatchNext(action)
  \/ \E i \in DOMAIN calls : Settle(i)
  \/ \E dispatchThrows \in BOOLEAN : RunJob(dispatchThrows)

SpecConcurrent == InitDefault /\ [][NextConcurrent]_vars

\* the store APIs the default export is given: with dispatch, without it,
\* and with a dispatch that is not a function
APIs == {StoreAPI, [dispatch |-> Absent], [dispatch |-> Str("not a function")]}

InitExport ==
  /\ api \in APIs
  /\ config = middleware(api)
  /\ calls = <<>>
  /\ emitted = <<>>
  /\ jobs = <<>>
  /\ settleOrder = <<>>

\* one action is dispatched to what the default export returned, if it
\* returned a middleware
DispatchExport(action) ==
  /\ config # Null
  /\ calls = <<>>
  /\ Call(action)

\* one dispatched action, with the default export installed
NextExport ==
  \/ \E action \in Actions : DispatchExport(action)
  \/ \E i \in DOMAIN calls : Settle(i)
  \/ \E dispatchThrows \in BOOLEAN : RunJob(dispatchThrows)

SpecExport == InitExport /\ [][NextExport]_vars

(***************************************************************************)
(* What the claims speak of                                                *)
(***************************************************************************)
\* the actions call i has handed to next and to dispatch, in order
EmittedBy(i) == SelectSeq(emitted, LAMBDA e : e.call = i)

\* the settled actions of call i
SettledActions(i) ==
  {n \in DOMAIN emitted :
     emitted[n].call = i /\ emitted[n].kind \in {"fulfilled", "rejected"}}

\* the promise-like value of call i has settled and no callback of it is
\* waiting to run
Done(i) == calls[i].settled /\ \A n \in DOMAIN jobs : jobs[n] # i

\* the Promise Detector finds the destructured value of call i promise-like
PromiseLike(i) == isPromise(calls[i].promise)

(***************************************************************************)
(* C1..C4: the lifecycle of an action whose payload is a promise           *)
(***************************************************************************)
\* C1: with the default configuration, an action whose payload is a promise
\* that resolves with v has <type>_PENDING forwarded through next by the
\* end of the call, then <type>_FULFILLED with payload v once the promise
\* has settled, and the call's promise resolves to {value: v, action: that
\* fulfilled action}.
C1_ResolvedPromiseLifecycle ==
  \A i \in DOMAIN calls :
    LET a == calls[i].action
        p == Read(a.payload)
        out == EmittedBy(i)
    IN (config = DefaultConfig /\ isPromise(p) /\ p.outcome = "fulfill") =>
         /\ Len(out) >= 1
         /\ out[1].via = "next"
         /\ out[1].action.type = a.type \o "_PENDING"
         /\ Done(i) =>
              /\ Len(out) = 2
              /\ out[2].action.type = a.type \o "_FULFILLED"
              /\ Read(out[2].action.payload) = p.v
              /\ ~out[2].threw => calls[i].ret = RetResolved(p.v, out[2].action)

\* C2: an action whose payload is a promise that rejects with e has a
\* pending action forwarded, then <type>_REJECTED with payload e and
\* error: true, and the call's promise rejects with e itself.
C2_RejectedPromiseLifecycle ==
  \A i \in DOMAIN calls :
    LET a == calls[i].action
        p == Read(a.payload)
        out == EmittedBy(i)
    IN (config = DefaultConfig /\ isPromise(p) /\ p.outcome = "reject") =>
         /\ Len(out) >= 1
         /\ out[1].via = "next"
         /\ out[1].action.type = a.type \o "_PENDING"
         /\ Done(i) =>
              /\ Len(out) = 2
              /\ out[2].action.type = a.type \o "_REJECTED"
              /\ out[2].action.payload = p.v
              /\ out[2].action.error = Bool(TRUE)
              /\ ~out[2].threw => calls[i].ret = RetRejected(p.v)

\* C3: when the action carries a promise-like value, the pending action is
\* the first thing the call forwards, it is forwarded before the call
\* returns, and the fulfilled or rejected action comes after it, also for a
\* value that had settled before the dispatch.
C3_PendingBeforeSettled ==
  \A i \in DOMAIN calls :
    PromiseLike(i) =>
      /\ EmittedBy(i) # <<>>
      /\ EmittedBy(i)[1].kind = "pending"
      /\ EmittedBy(i)[1].via = "next"
      /\ \A n \in 2..Len(EmittedBy(i)) : EmittedBy(i)[n].kind # "pending"

\* C4: once the promise-like value of a dispatched action has settled,
\* exactly one fulfilled or rejected action has been emitted for it.
C4_ExactlyOneSettledAction ==
  \A i \in DOMAIN calls :
    (PromiseLike(i) /\ Done(i)) => Cardinality(SettledActions(i)) = 1

(***************************************************************************)
(* C5..C8: passthrough, optimistic data, configuration, the destructurer   *)
(***************************************************************************)
\* C5: when the destructurer finds no promise-like value (a scalar, an
\* absent payload, an object without a promise, a function or
\* payload.promise function that returns something not promise-like), the
\* call forwards exactly one action through next, the input action itself,
\* and no pending, fulfilled or rejected action is ever emitted for it.
C5_NoPromisePassthrough ==
  \A i \in DOMAIN calls :
    LET d == destructureAction(calls[i].action)
        out == EmittedBy(i)
    IN (config = DefaultConfig /\ ~d.threw /\ ~isPromise(d.promise)) =>
         /\ Len(out) = 1
         /\ out[1].via = "next"
         /\ out[1].action = calls[i].action

\* the payload is {promise, data} with promise a promise or a function
\* that returns one
HasPromiseProperty(payload) ==
  /\ payload.k = "object"
  /\ LET prop == Read(payload.promise)
     IN \/ isPromise(prop)
        \/ prop.k = "function" /\ ~prop.throws /\ isPromise(prop.ret)

\* C6: for a payload {promise, data} whose promise is a promise or a
\* function returning one, the pending action forwarded has payload data,
\* and the fulfilled or rejected action carries the settled value or error.
C6_OptimisticData ==
  \A i \in DOMAIN calls :
    LET payload == Read(calls[i].action.payload)
        out == EmittedBy(i)
    IN (config = DefaultConfig /\ HasPromiseProperty(payload)) =>
         /\ Len(out) >= 1
         /\ out[1].kind = "pending"
         /\ Read(out[1].action.payload) = Read(payload.data)
         /\ Done(i) =>
              /\ Len(out) = 2
              /\ out[2].kind \in {"fulfilled", "rejected"}
              /\ Read(out[2].action.payload) = calls[i].promise.v

\* the delimiter and the tokens a partial configuration is said to leave at
\* their defaults
EffectiveDelimiter ==
  IF config.typeDelimiter = Undefined THEN "_" ELSE config.typeDelimiter.s

DefaultToken(kind) ==
  CASE kind = "pending" -> "PENDING"
    [] kind = "fulfilled" -> "FULFILLED"
    [] kind = "rejected" -> "REJECTED"

EffectiveToken(kind) ==
  IF TypesMissing(config) \/ TypeToken(config, kind) = Undefined
  THEN DefaultToken(kind)
  ELSE TypeToken(config, kind).s

\* C7: every derived action has type base + delimiter + token, where a
\* configuration that leaves out the tokens or the delimiter gets the
\* default for what it leaves out, and the derived actions are still
\* produced (no call fails for want of a token).
C7_DerivedTypes ==
  /\ \A n \in DOMAIN emitted :
       LET e == emitted[n] IN
       e.kind \in {"pending", "fulfilled", "rejected"} =>
         e.action.type =
           calls[e.call].action.type \o EffectiveDelimiter \o EffectiveToken(e.kind)
  /\ \A i \in DOMAIN calls : calls[i].ret # RetThrow(TypeErrorUndefined)

\* the payload holds a function that throws when it is called
HoldsThrowingFunction(payload) ==
  \/ CallThrows(payload)
  \/ payload.k = "object" /\ CallThrows(Read(payload.promise))

\* C8: destructureAction never throws, whatever the shape of the payload,
\* and a scalar, undefined or null payload yields null for both outputs.
C8_DestructureTotal ==
  \A i \in DOMAIN calls :
    LET payload == Read(calls[i].action.payload)
        d == destructureAction(calls[i].action)
    IN /\ ~HoldsThrowingFunction(payload) => ~d.threw
       /\ payload.k \in {"undefined", "null", "number", "string"} =>
            d.promise = Null /\ d.data = Null

(***************************************************************************)
(* C9, C10: several dispatched actions                                     *)
(***************************************************************************)
\* call j got what is due to it: its pending action and, once its value has
\* settled, one settled action, or else the passthrough of its input
Processed(j) ==
  IF PromiseLike(j)
  THEN /\ EmittedBy(j) # <<>>
       /\ EmittedBy(j)[1].kind = "pending"
       /\ Done(j) => Cardinality(SettledActions(j)) = 1
  ELSE /\ Len(EmittedBy(j)) = 1
       /\ EmittedBy(j)[1].via = "next"
       /\ EmittedBy(j)[1].action = calls[j].action

\* C9: an action dispatched after the promise of an earlier action was
\* rejected still gets its passthrough or its pending-then-settled actions.
C9_ProcessedAfterRejection ==
  \A j \in DOMAIN calls : calls[j].sawReject => Processed(j)

\* call i has its own pending action and, once settled, its own settled
\* action, built from its own type, meta and settled value
OwnLifecycle(i) ==
  LET a == calls[i].action
      p == calls[i].promise
      out == EmittedBy(i)
  IN /\ Len(out) >= 1
     /\ out[1].action.type = a.type \o "_PENDING"
     /\ out[1].action.meta = a.meta
     /\ Done(i) =>
          /\ Len(out) = 2
          /\ out[2].action.type =
               a.type \o (IF p.outcome = "fulfill" THEN "_FULFILLED" ELSE "_REJECTED")
          /\ out[2].action.meta = a.meta
          /\ out[2].action.payload = p.v

\* the calls of the settled actions, in the order of their dispatch
SettledCalls ==
  LET settledOnly == SelectSeq(emitted, LAMBDA e : e.kind \in {"fulfilled", "rejected"})
  IN [n \in DOMAIN settledOnly |-> settledOnly[n].call]

\* the promise-like calls whose callback has run, in the order of settlement
SettledInOrder == SelectSeq(settleOrder, LAMBDA i : PromiseLike(i) /\ Done(i))

\* C10: with several async actions in flight at once, each has its own
\* pending action followed by its own settled action, built from its own
\* type, meta and value, and the settled actions are dispatched in the
\* order in which the promises settle.
C10_ConcurrentLifecycles ==
  /\ \A j \in DOMAIN calls :
       \A i \in calls[j].inFlight :
         (PromiseLike(i) /\ PromiseLike(j)) => OwnLifecycle(i) /\ OwnLifecycle(j)
  /\ (\E j \in DOMAIN calls : calls[j].inFlight # {}) => SettledCalls = SettledInOrder

(***************************************************************************)
(* C11: which of the store's two entry points each action is sent to       *)
(***************************************************************************)
\* C11: fulfilled and rejected actions are sent only through dispatch and
\* never through next; pending actions and passed-through actions are sent
\* only through next and never through dispatch.
C11_Routing ==
  \A n \in DOMAIN emitted :
    /\ emitted[n].kind \in {"fulfilled", "rejected"} => emitted[n].via = "dispatch"
    /\ emitted[n].kind \in {"pending", "passthrough", "nested"} => emitted[n].via = "next"

\* a call has sent its pending action and then a settled action
C11_Witness ==
  \E i \in DOMAIN calls :
    /\ Len(EmittedBy(i)) = 2
    /\ EmittedBy(i)[1].kind = "pending"
    /\ EmittedBy(i)[2].kind \in {"fulfilled", "rejected"}
    /\ EmittedBy(i)[2].via = "dispatch"

(***************************************************************************)
(* C12: what the middleware call returns                                   *)
(***************************************************************************)
\* the settled action call i has handed to dispatch
SettledEmission(i) == emitted[CHOOSE n \in SettledActions(i) : TRUE]

\* the call ended in `return next(...)`
ReturnedNext(i) ==
  /\ EmittedBy(i) # <<>>
  /\ EmittedBy(i)[1].kind \in {"passthrough", "nested"}

C13_OrdinaryPromiseExpanded ==
  \A i \in DOMAIN calls :
    isPromise(Read(calls[i].action.payload)) =>
      /\ \A n \in DOMAIN emitted :
           emitted[n].call = i => emitted[n].kind # "nested"
      /\ EmittedBy(i) # <<>>
      /\ EmittedBy(i)[1].kind = "pending"
      /\ Done(i) => Cardinality(SettledActions(i)) = 1

(***************************************************************************)
(* C14, C15: the fields of a derived action                                *)
(***************************************************************************)
\* the emission is of an action that createAction built
Derived(e) == e.kind \in {"pending", "fulfilled", "rejected"}

\* C14: a derived action has a payload field only if the payload is neither
\* null nor undefined, a meta field only if the source action defined meta,
\* and an error field only when it is true.
C14_FieldPolicy ==
  \A n \in DOMAIN emitted :
    LET e == emitted[n] IN
    Derived(e) =>
      /\ e.action.payload \notin {Undefined, Null}
      /\ e.action.meta # Undefined
      /\ e.action.meta # Absent => calls[e.call].action.meta # Absent
      /\ e.action.error \in {Absent, Bool(TRUE)}

\* a fulfilled action for a promise-like value that resolved with undefined:
\* it has no payload field and no error field
C14_Witness ==
  \E n \in DOMAIN emitted :
    /\ emitted[n].kind = "fulfilled"
    /\ calls[emitted[n].call].promise.v = Undefined
    /\ emitted[n].action.payload = Absent
    /\ emitted[n].action.error = Absent

\* C15 as stated: when the original action has a meta field, its derived
\* actions all carry that same meta; when it has none, none of them has a
\* meta field.
C15_MetaAsStated ==
  \A n \in DOMAIN emitted :
    LET e == emitted[n] IN
    Derived(e) => e.action.meta = calls[e.call].action.meta

\* C15, amended: when the meta of the original action is not undefined, its
\* derived actions all carry that same meta; when the original action has
\* no meta field, or one that is undefined, none of them has a meta field.
C15_Meta ==
  \A n \in DOMAIN emitted :
    LET e == emitted[n]
        meta == calls[e.call].action.meta
    IN Derived(e) =>
         e.action.meta = (IF meta \in {Absent, Undefined} THEN Absent ELSE meta)

\* a call whose pending and fulfilled actions both carry the meta object of
\* the original action
C15_Witness ==
  \E i \in DOMAIN calls :
    /\ calls[i].action.meta = Meta(1)
    /\ Len(EmittedBy(i)) = 2
    /\ EmittedBy(i)[1].kind = "pending"
    /\ EmittedBy(i)[1].action.meta = Meta(1)
    /\ EmittedBy(i)[2].kind = "fulfilled"
    /\ EmittedBy(i)[2].action.meta = Meta(1)

(***************************************************************************)
(* C16: the functions the destructurer calls                               *)
(***************************************************************************)
\* the value of payload.promise, where the payload is a plain object
PromiseProperty(payload) ==
  IF payload.k = "object" THEN Read(payload.promise) ELSE Undefined

\* C16: one dispatched action has a caller-supplied function called at most
\* once: a function payload once, a callable payload.promise once, nothing
\* for a promise, a plain object or a scalar; and what the function returns
\* is taken as it is, without a further call.
C16_OneInvocation ==
  \A i \in DOMAIN calls :
    LET payload == Read(calls[i].action.payload)
        prop == PromiseProperty(payload)
    IN /\ calls[i].invoked =
            (IF TypeOf(payload) = "function" \/ TypeOf(prop) = "function" THEN 1 ELSE 0)
       /\ (payload.k = "function" /\ ~payload.throws) => calls[i].promise = payload.ret
       /\ (prop.k = "function" /\ ~prop.throws) => calls[i].promise = prop.ret

\* a function payload was called once and returned a callable value, which
\* was not called in turn
C16_Witness ==
  \E i \in DOMAIN calls :
    /\ Read(calls[i].action.payload).k = "function"
    /\ calls[i].invoked = 1
    /\ TypeOf(calls[i].promise) = "function"

(***************************************************************************)
(* C17, C18: what follows a pending action                                 *)
(***************************************************************************)
\* call i has forwarded a pending action
ForwardedPending(i) ==
  \E n \in DOMAIN emitted : emitted[n].call = i /\ emitted[n].kind = "pending"

\* C17: a pending action is forwarded only for an action whose destructured
\* value is promise-like; the call that forwarded it does not throw, and
\* once the value has settled a fulfilled or rejected action has followed.
C17_PendingOnlyForPromiseLike ==
  \A i \in DOMAIN calls :
    ForwardedPending(i) =>
      /\ PromiseLike(i)
      /\ calls[i].ret.k # "threw"
      /\ Done(i) => SettledActions(i) # {}

\* C18: when dispatch throws on the fulfilled action, no rejected action is
\* dispatched for that call; the error only rejects the promise the
\* middleware call returned.
C18_NoRejectedAfterFailedDispatch ==
  \A i \in DOMAIN calls :
    (\E n \in SettledActions(i) : emitted[n].kind = "fulfilled" /\ emitted[n].threw) =>
      /\ \A n \in SettledActions(i) : emitted[n].kind # "rejected"
      /\ calls[i].ret.k = "promise"
      /\ calls[i].ret.state = "rejected"
      /\ calls[i].ret.e = DispatchError

\* dispatch has thrown on the fulfilled action of a call
C18_Witness ==
  \E n \in DOMAIN emitted :
    /\ emitted[n].kind = "fulfilled"
    /\ emitted[n].threw
    /\ calls[emitted[n].call].ret.k = "promise"
    /\ calls[emitted[n].call].ret.state = "rejected"

(***************************************************************************)
(* C19: the default export                                                 *)
(***************************************************************************)
\* what createPromise() with no argument does with the action of call i
Reference(i) ==
  Handle(createPromise(Undefined), calls[i].action, i, calls[i].nextRet,
         calls[i].sawReject, calls[i].inFlight)

\* C19: given a store API whose dispatch is a function, the default export
\* handles every dispatched action as createPromise() with the default
\* configuration does; given an API whose dispatch is not a function it
\* returns null, and nothing is forwarded or dispatched.
C19_DefaultExport ==
  IF TypeOf(Read(api.dispatch)) = "function"
  THEN /\ config = [types |-> [k |-> "types", pending |-> Str("PENDING"),
                               fulfilled |-> Str("FULFILLED"),
                               rejected |-> Str("REJECTED")],
                    typeDelimiter |-> Str("_")]
       /\ \A i \in DOMAIN calls :
            /\ Reference(i).out = SubSeq(EmittedBy(i), 1, Len(Reference(i).out))
            /\ Reference(i).call.registered = calls[i].registered
            /\ ~calls[i].registered => Reference(i).call.ret = calls[i].ret
       /\ \A n \in DOMAIN emitted :
            Derived(emitted[n]) =>
              emitted[n].action.type =
                calls[emitted[n].call].action.type \o "_" \o DefaultToken(emitted[n].kind)
  ELSE config = Null /\ calls = <<>> /\ emitted = <<>>

\* the default export, given a dispatch function, has expanded an action
\* into FETCH_PENDING and FETCH_FULFILLED
C19_Witness ==
  /\ TypeOf(Read(api.dispatch)) = "function"
  /\ \E i \in DOMAIN calls :
       /\ calls[i].action.type = "FETCH"
       /\ Len(EmittedBy(i)) = 2
       /\ EmittedBy(i)[1].action.type = "FETCH_PENDING"
       /\ EmittedBy(i)[2].action.type = "FETCH_FULFILLED"

====
